---- MODULE Spec2Model ----
(***************************************************************************)
(* Model of the LiveAssistant streaming session controller                 *)
(* (src/components/ChatWidget.tsx, lines 1058-1510 and its UI wiring).     *)
(*                                                                         *)
(* The component is single-threaded and event driven.  Every action below  *)
(* is one run of a handler from its entry to its return or to its next     *)
(* `await`.  React state (status, isConnected, isMuted, ...) is read by a  *)
(* user-event handler from the latest render; a callback that was created  *)
(* inside toggleConnection reads the values that render had (its closure), *)
(* which the model keeps per connect attempt.                              *)
(*                                                                         *)
(* Handlers are operators from a state record to a state record, so that   *)
(* a handler that calls cleanup() or stopScreenShare() is the composition  *)
(* of the operators, as in the source.                                     *)
(***************************************************************************)
EXTENDS Integers, Sequences, FiniteSets, TLC

\* ---------------------------------------------------------------- bounds
MaxAttempts == 2
MaxShares == 2
MaxTimers == 2
MaxBlocks == 2
MaxTime == 2
MaxDur == 1
MaxBuffers == 2
MaxSamples == 3
MaxChannels == 2

Att == 1..MaxAttempts
Shr == 1..MaxShares
Tmr == 1..MaxTimers

Max(a, b) == IF a >= b THEN a ELSE b

VARIABLES
  status, isConnected, isMuted, errorMessage, isScreenSharing, isScreenPaused,
  isSessionActiveRef, inputAudioContextRef, outputAudioContextRef,
  scriptProcessorRef, mediaStreamRef, sessionRef, nextStartTimeRef, sourcesRef,
  screenStreamRef, screenIntervalRef, videoSrc,
  att, shr, timers, clock, pendingDecode,
  blockLog, playLog, cutCursor, playing, lastEvent, codec, frame

vars == <<status, isConnected, isMuted, errorMessage, isScreenSharing, isScreenPaused,
  isSessionActiveRef, inputAudioContextRef, outputAudioContextRef,
  scriptProcessorRef, mediaStreamRef, sessionRef, nextStartTimeRef, sourcesRef,
  screenStreamRef, screenIntervalRef, videoSrc,
  att, shr, timers, clock, pendingDecode,
  blockLog, playLog, cutCursor, playing, lastEvent, codec, frame>>

\* The state as one record: what the handlers read and write.
Cur == [
  status |-> status, isConnected |-> isConnected, isMuted |-> isMuted,
  errorMessage |-> errorMessage, isScreenSharing |-> isScreenSharing,
  isScreenPaused |-> isScreenPaused, isSessionActiveRef |-> isSessionActiveRef,
  inputAudioContextRef |-> inputAudioContextRef,
  outputAudioContextRef |-> outputAudioContextRef,
  scriptProcessorRef |-> scriptProcessorRef, mediaStreamRef |-> mediaStreamRef,
  sessionRef |-> sessionRef, nextStartTimeRef |-> nextStartTimeRef,
  sourcesRef |-> sourcesRef, screenStreamRef |-> screenStreamRef,
  screenIntervalRef |-> screenIntervalRef, videoSrc |-> videoSrc,
  att |-> att, shr |-> shr, timers |-> timers,
  clock |-> clock, pendingDecode |-> pendingDecode,
  blockLog |-> blockLog, playLog |-> playLog, cutCursor |-> cutCursor,
  playing |-> playing ]

\* One connect attempt: the locals and closure of one toggleConnection call
\* (inputCtx, outputCtx, stream, sessionPromise, the isMuted it closed over)
\* and the state of the objects it created.
\*   pc       where the async function is suspended
\*   sess     the remote session of sessionPromise
\*   closeReq cleanup() has chained session.close() on a still pending promise
\*   frames   screen-frame sends chained on a still pending promise
\*   torn     cleanup() has run since this attempt began
NoAttempt == [pc |-> "none", muted |-> FALSE, inCtx |-> "none", outCtx |-> "none",
              mic |-> "none", sess |-> "none", proc |-> "none",
              closeReq |-> FALSE, frames |-> 0, torn |-> FALSE]

\* playing is the set of the source nodes that have been started and have
\* neither played to their end nor been stopped: the state of the nodes
\* themselves, whatever sourcesRef says.
\*
\* cutCursor is the playback cursor the last interruption discarded, until
\* the next buffer is scheduled; NoCut when no interruption is outstanding.
NoCut == 0 - 1

\* One startScreenShare call and the display stream it obtained.
NoShare == [pc |-> "none", stream |-> "none"]

\* The last handler that ran: which one and for which attempt or share (id),
\* whether teardown had run on its attempt (stale), whether the active flag was
\* set when it was entered (wasActive), whether it changed the component's
\* state (changed), what it transmitted to the remote session (sent),
\* whether it ran the interruption branch of onmessage (intr), and what the
\* error it was given says (arg).
NoEvent == [kind |-> "init", id |-> 0, stale |-> FALSE, wasActive |-> FALSE,
            changed |-> FALSE, sent |-> "none", intr |-> FALSE, arg |-> {}]

\* The codec functions, lines 871-919, are pure and used here on their own:
\* codec holds one array of samples on its way through createBlob (wire) and
\* back through decode and the Int16Array view of decodeAudioData (pcm), and
\* what decodeAudioData makes of the wire bytes for a number of channels (buf).
NoBuffer == [err |-> "none", numChannels |-> 0, length |-> 0, channelData |-> <<>>]

NoCodec == [stage |-> "none", samples |-> <<>>, wire |-> <<>>, pcm |-> <<>>,
            buf |-> NoBuffer]

InitComponent ==
  /\ status = "idle" /\ isConnected = FALSE /\ isMuted = FALSE
  /\ errorMessage = "" /\ isScreenSharing = FALSE /\ isScreenPaused = FALSE
  /\ isSessionActiveRef = FALSE
  /\ inputAudioContextRef = 0 /\ outputAudioContextRef = 0
  /\ scriptProcessorRef = 0 /\ mediaStreamRef = 0 /\ sessionRef = 0
  /\ nextStartTimeRef = 0 /\ sourcesRef = {}
  /\ screenStreamRef = 0 /\ screenIntervalRef = 0 /\ videoSrc = 0
  /\ att = [i \in Att |-> NoAttempt]
  /\ shr = [j \in Shr |-> NoShare]
  /\ timers = {} /\ clock = 0 /\ pendingDecode = <<>>
  /\ blockLog = <<>> /\ playLog = <<>> /\ cutCursor = NoCut /\ playing = {}
  /\ lastEvent = NoEvent

\* The scaling of captureAndSendFrame, lines 1282-1291, is likewise used on
\* its own: frame holds one video frame size and the canvas made for it.
NoFrame == [stage |-> "none", videoWidth |-> 0, videoHeight |-> 0,
            width |-> 0, height |-> 0]

Init == InitComponent /\ codec = NoCodec /\ frame = NoFrame

\* The component's own state: React state and refs, without the state of the
\* devices, contexts and remote sessions and without the history variables.
Prog(s) == <<s.status, s.isConnected, s.isMuted, s.errorMessage,
             s.isScreenSharing, s.isScreenPaused, s.isSessionActiveRef,
             s.inputAudioContextRef, s.outputAudioContextRef,
             s.scriptProcessorRef, s.mediaStreamRef, s.sessionRef,
             s.nextStartTimeRef, s.sourcesRef, s.screenStreamRef,
             s.screenIntervalRef, s.videoSrc, s.pendingDecode>>

\* useEffect([isExpanded, isScreenSharing]): after a render in which
\* isScreenSharing changed, the held screen stream is attached to the preview.
ReattachEffect(old, s) ==
  IF s.isScreenSharing # old.isScreenSharing /\ s.screenStreamRef # 0
  THEN [s EXCEPT !.videoSrc = s.screenStreamRef]
  ELSE s

\* Commit the state a handler leaves, and record which handler ran.
Apply(s0, ev) ==
  LET s == ReattachEffect(Cur, s0) IN
  /\ status' = s.status /\ isConnected' = s.isConnected /\ isMuted' = s.isMuted
  /\ errorMessage' = s.errorMessage /\ isScreenSharing' = s.isScreenSharing
  /\ isScreenPaused' = s.isScreenPaused
  /\ isSessionActiveRef' = s.isSessionActiveRef
  /\ inputAudioContextRef' = s.inputAudioContextRef
  /\ outputAudioContextRef' = s.outputAudioContextRef
  /\ scriptProcessorRef' = s.scriptProcessorRef
  /\ mediaStreamRef' = s.mediaStreamRef /\ sessionRef' = s.sessionRef
  /\ nextStartTimeRef' = s.nextStartTimeRef /\ sourcesRef' = s.sourcesRef
  /\ screenStreamRef' = s.screenStreamRef
  /\ screenIntervalRef' = s.screenIntervalRef /\ videoSrc' = s.videoSrc
  /\ att' = s.att /\ shr' = s.shr
  /\ timers' = s.timers /\ clock' = s.clock
  /\ pendingDecode' = s.pendingDecode
  /\ blockLog' = s.blockLog /\ playLog' = s.playLog
  /\ cutCursor' = s.cutCursor /\ playing' = s.playing
  /\ codec' = codec /\ frame' = frame
  /\ lastEvent' = [ev EXCEPT !.changed = (Prog(s) # Prog(Cur)),
                             !.wasActive = isSessionActiveRef]

Ev(kind, id) == [NoEvent EXCEPT !.kind = kind, !.id = id]

\* A task: a user event, a timer tick or the callback of a device or network
\* operation.  The continuation of an await on an already settled promise (the
\* decode of onmessage, line 1424) is a microtask, and no task starts while
\* one is pending.
Task(s0, ev) ==
  /\ pendingDecode = <<>>
  /\ Apply(s0, ev)

\* ------------------------------------------------------------- teardown

\* cleanup() up to its state updates, lines 1092-1139: every handle a ref
\* holds is released and the ref cleared.
Release(s) ==
  [s EXCEPT
    !.isSessionActiveRef = FALSE,
    !.att = [i \in Att |->
      LET a == s.att[i] IN
      [a EXCEPT
        \* sessionRef.current.then(session => session.close())
        !.sess = IF i = s.sessionRef /\ a.sess = "open" THEN "closing" ELSE a.sess,
        !.closeReq = a.closeReq \/ (i = s.sessionRef /\ a.sess = "pending"),
        !.mic = IF i = s.mediaStreamRef THEN "stopped" ELSE a.mic,
        !.proc = IF i = s.scriptProcessorRef THEN "off" ELSE a.proc,
        !.inCtx = IF i = s.inputAudioContextRef THEN "closed" ELSE a.inCtx,
        !.outCtx = IF i = s.outputAudioContextRef THEN "closed" ELSE a.outCtx,
        !.torn = a.torn \/ a.pc # "none"]],
    !.sessionRef = 0,
    !.mediaStreamRef = 0,
    !.shr = [j \in Shr |->
      IF j = s.screenStreamRef THEN [s.shr[j] EXCEPT !.stream = "stopped"]
      ELSE s.shr[j]],
    !.screenStreamRef = 0,
    !.scriptProcessorRef = 0,
    !.inputAudioContextRef = 0,
    !.outputAudioContextRef = 0,
    !.timers = s.timers \ {s.screenIntervalRef},
    !.screenIntervalRef = 0,
    \* sourcesRef.current.forEach(source => source.stop()); clear()
    !.playing = s.playing \ s.sourcesRef,
    !.sourcesRef = {},
    !.videoSrc = 0]

\* A cleanup() that reports a teardown requested while not connected as an
\* error.
CleanupFlagsError(s) ==
  [Release(s) EXCEPT !.isConnected = FALSE,
                     !.isScreenSharing = FALSE,
                     !.isScreenPaused = FALSE,
                     !.status = IF s.isConnected THEN "idle" ELSE "error"]

\* A cleanup() that also clears the error message.
CleanupClearsError(s) ==
  [Release(s) EXCEPT !.isConnected = FALSE,
                     !.isScreenSharing = FALSE,
                     !.isScreenPaused = FALSE,
                     !.status = "idle",
                     !.errorMessage = ""]

\* cleanup(), lines 1091-1146.
Cleanup(s) ==
  [Release(s) EXCEPT !.isConnected = FALSE,
                     !.isScreenSharing = FALSE,
                     !.isScreenPaused = FALSE,
                     !.status = "idle"]

\* stopScreenShare(), lines 1263-1277.
StopScreenShare(s) ==
  [s EXCEPT
    !.shr = [j \in Shr |->
      IF j = s.screenStreamRef THEN [s.shr[j] EXCEPT !.stream = "stopped"]
      ELSE s.shr[j]],
    !.screenStreamRef = 0,
    !.videoSrc = 0,
    !.timers = s.timers \ {s.screenIntervalRef},
    !.screenIntervalRef = 0,
    !.isScreenSharing = FALSE,
    !.isScreenPaused = FALSE]

\* ------------------------------------------------------ connect attempt

\* The outer catch of toggleConnection, lines 1504-1509.
ConnectCatch(s, i) ==
  Cleanup([s EXCEPT !.status = "error", !.errorMessage = "unexpected",
                    !.att[i].pc = "failed"])

\* Lines 1342-1347: the output context is created and, when it starts
\* suspended, resumed.  `clock` is the currentTime of the context that
\* outputAudioContextRef holds; a new context starts at 0.
CreateOutput(s, i, outSuspended) ==
  [s EXCEPT !.att[i].outCtx = "open",
            !.outputAudioContextRef = i,
            !.clock = 0,
            !.playLog = <<>>,
            !.cutCursor = NoCut,
            !.att[i].pc = IF outSuspended THEN "resumeOut" ELSE "mic"]

\* The slot of a new attempt.  A slot is free when its attempt has never run,
\* or has ended with every object it created released and unreferenced (no
\* callback of it can run any more).
AttemptOver(s, i) ==
  LET a == s.att[i] IN
  \/ a.pc = "none"
  \/ /\ a.pc \in {"failed", "session"}
     /\ a.inCtx # "open" /\ a.outCtx # "open" /\ a.mic # "live"
     /\ a.sess \in {"none", "closed", "rejected"} /\ a.proc # "on"
     /\ i \notin {s.inputAudioContextRef, s.outputAudioContextRef,
                  s.scriptProcessorRef, s.mediaStreamRef, s.sessionRef}
     /\ \A k \in 1..Len(s.pendingDecode) : s.pendingDecode[k].ctx # i
     /\ \A src \in s.sourcesRef \cup s.playing : src.ctx # i

FreeAttempts(s) == {i \in Att : AttemptOver(s, i)}

NewAttempt(s) == CHOOSE i \in FreeAttempts(s) : \A k \in FreeAttempts(s) : i <= k

\* A toggleConnection whose precondition failures raise the active flag.
ToggleStartRaisesFlag(s, online, keyOk, inSuspended, outSuspended) ==
  IF s.isConnected THEN Cleanup(s)
  ELSE IF ~online
  THEN [s EXCEPT !.errorMessage = "offline", !.status = "error",
                 !.isSessionActiveRef = TRUE]
  ELSE IF ~keyOk
  THEN [s EXCEPT !.errorMessage = "nokey", !.status = "error",
                 !.isSessionActiveRef = TRUE]
  ELSE
    LET i == NewAttempt(s)
        s1 == [s EXCEPT !.errorMessage = "",
                        !.status = "connecting",
                        !.isSessionActiveRef = TRUE,
                        !.att[i] = [NoAttempt EXCEPT !.pc = "resumeIn",
                                                     !.muted = s.isMuted,
                                                     !.inCtx = "open"],
                        !.inputAudioContextRef = i]
    IN IF inSuspended THEN s1 ELSE CreateOutput(s1, i, outSuspended)

\* toggleConnection up to its first await, lines 1311-1362.
ToggleStart(s, online, keyOk, inSuspended, outSuspended) ==
  IF s.isConnected THEN Cleanup(s)
  ELSE IF ~online THEN [s EXCEPT !.errorMessage = "offline", !.status = "error"]
  ELSE IF ~keyOk THEN [s EXCEPT !.errorMessage = "nokey", !.status = "error"]
  ELSE
    LET i == NewAttempt(s)
        s1 == [s EXCEPT !.errorMessage = "",
                        !.status = "connecting",
                        !.isSessionActiveRef = TRUE,
                        !.att[i] = [NoAttempt EXCEPT !.pc = "resumeIn",
                                                     !.muted = s.isMuted,
                                                     !.inCtx = "open"],
                        !.inputAudioContextRef = i]
    IN IF inSuspended THEN s1 ELSE CreateOutput(s1, i, outSuspended)

\* The continuation of `await inputCtx.resume()`, line 1339: resume() of a
\* context that was closed meanwhile rejects, which the outer catch handles.
ResumeInputDone(s, i, outSuspended) ==
  IF s.att[i].inCtx = "closed" THEN ConnectCatch(s, i)
  ELSE CreateOutput(s, i, outSuspended)

\* The continuation of `await outputCtx.resume()`, line 1346.
ResumeOutputDone(s, i) ==
  IF s.att[i].outCtx = "closed" THEN ConnectCatch(s, i)
  ELSE [s EXCEPT !.att[i].pc = "mic"]

\* getUserMedia resolved: lines 1379-1502.
MicResolved(s, i) ==
  [s EXCEPT !.att[i].mic = "live",
            !.mediaStreamRef = i,
            !.att[i].sess = "pending",
            !.sessionRef = i,
            !.att[i].pc = "session"]

\* The message the getUserMedia catch shows for an error of this name, lines
\* 1365-1373.
MicMessage(name) ==
  IF name \in {"NotAllowedError", "PermissionDeniedError"} THEN "mic-denied"
  ELSE IF name = "NotFoundError" THEN "mic-not-found"
  ELSE IF name = "NotReadableError" THEN "mic-busy"
  ELSE "mic-other"

\* getUserMedia rejected with an error of this name: lines 1363-1377.
MicRejected(s, i, name) ==
  Cleanup([s EXCEPT !.errorMessage = MicMessage(name), !.status = "error",
                    !.att[i].pc = "failed"])

\* Names of the errors getUserMedia rejects with.
MicCauses == {"NotAllowedError", "PermissionDeniedError", "NotFoundError",
              "NotReadableError", "AbortError"}

\* ------------------------------------------------------- session events

\* callbacks.onopen, lines 1386-1415, followed by the resolution of
\* sessionPromise, which runs the continuations chained on it: cleanup's
\* session.close() (lines 1095-1099) and captureAndSendFrame's send (1299-1308).
\* procOk = FALSE is createMediaStreamSource throwing on an input context that
\* was closed meanwhile; the statements before it have run.
OnOpen(s, i, procOk) ==
  LET s1 == IF ~s.isSessionActiveRef THEN s
            ELSE LET s2 == [s EXCEPT !.status = "connected",
                                     !.isConnected = TRUE,
                                     !.nextStartTimeRef = 0]
                 IN IF procOk
                    THEN [s2 EXCEPT !.att[i].proc = "on", !.scriptProcessorRef = i]
                    ELSE s2
  IN [s1 EXCEPT !.att[i].sess = IF s.att[i].closeReq THEN "closing" ELSE "open",
                !.att[i].closeReq = FALSE,
                !.att[i].frames = 0]

\* A sessionPromise.catch that swallows the rejection.
OnConnectRejectedSilent(s, i, msg) ==
  [s EXCEPT !.att[i].sess = "rejected", !.att[i].closeReq = FALSE,
            !.att[i].frames = 0]

\* The message sessionPromise.catch shows for an error whose message contains
\* these substrings, lines 1492-1498.
RejectMessage(msg) ==
  IF "401" \in msg THEN "auth-failed"
  ELSE IF "503" \in msg THEN "unavailable"
  ELSE "network"

\* sessionPromise.catch, lines 1487-1500.  msg is the set of the substrings
\* "401" and "503" that e.message contains (none when it has no message).
OnConnectRejected(s, i, msg) ==
  LET s1 == [s EXCEPT !.att[i].sess = "rejected", !.att[i].closeReq = FALSE,
                      !.att[i].frames = 0]
  IN IF ~s.isSessionActiveRef THEN s1
     ELSE Cleanup([s1 EXCEPT !.status = "error",
                             !.errorMessage = RejectMessage(msg)])

RejectCauses == SUBSET {"401", "503"}

\* An onclose that leaves the connection flag set.
OnCloseKeepsFlag(s, i) ==
  LET s1 == [s EXCEPT !.att[i].sess = "closed"]
  IN IF ~s.isSessionActiveRef THEN s1
     ELSE StopScreenShare([s1 EXCEPT !.status = "idle"])

\* callbacks.onclose, lines 1450-1456.
OnClose(s, i) ==
  LET s1 == [s EXCEPT !.att[i].sess = "closed"]
  IN IF ~s.isSessionActiveRef THEN s1
     ELSE StopScreenShare([s1 EXCEPT !.status = "idle", !.isConnected = FALSE])

\* callbacks.onerror, lines 1457-1475.  The transport that raised the error
\* closes afterwards.
OnError(s, i) ==
  LET s1 == [s EXCEPT !.att[i].sess = "closing"]
  IN IF ~s.isSessionActiveRef THEN s1
     ELSE LET s2 == Cleanup([s EXCEPT !.status = "error", !.errorMessage = "live"])
          IN [s2 EXCEPT !.att[i].sess = "closing"]

\* ------------------------------------------------------------ capture

\* Whether scriptProcessor.onaudioprocess of attempt i transmits the block,
\* lines 1397-1411: the isMuted it reads is the one toggleConnection closed
\* over; the send runs in a continuation of the (resolved) sessionPromise.
BlockTransmitted(s, i) ==
  /\ ~s.att[i].muted
  /\ s.isSessionActiveRef
  /\ s.att[i].sess = "open"

\* One capture block of attempt i's processor.  blockLog keeps, per block, what
\* the user had set (unmuted), whether the session of the block was the
\* connected, active one (live) and whether a frame went out (sent).
OnAudioProcess(s, i) ==
  [s EXCEPT !.blockLog = Append(s.blockLog,
     [n |-> Len(s.blockLog) + 1,
      unmuted |-> ~s.isMuted,
      live |-> s.isConnected /\ s.isSessionActiveRef /\ s.att[i].sess = "open"
               /\ ~s.att[i].torn,
      sent |-> BlockTransmitted(s, i)])]

\* The mute button, lines 1647-1658.
ToggleMute(s) == [s EXCEPT !.isMuted = ~s.isMuted]

\* ----------------------------------------------------------- playback

\* An interruption that stops and forgets the sources in flight but leaves
\* the playback cursor where it was.
InterruptKeepsCursor(s) ==
  [s EXCEPT !.playing = s.playing \ s.sourcesRef,
            !.sourcesRef = {}, !.playLog = <<>>,
            !.cutCursor = s.nextStartTimeRef,
            !.pendingDecode = [k \in 1..Len(s.pendingDecode) |->
                                 [s.pendingDecode[k] EXCEPT !.cut = TRUE]]]

\* The interruption branch of onmessage, lines 1443-1448.  A buffer whose
\* decode is pending has an interruption between its arrival and its start
\* (cut).
Interrupt(s) ==
  [s EXCEPT !.playing = s.playing \ s.sourcesRef,
            !.sourcesRef = {}, !.nextStartTimeRef = 0, !.playLog = <<>>,
            !.cutCursor = s.nextStartTimeRef,
            !.pendingDecode = [k \in 1..Len(s.pendingDecode) |->
                                 [s.pendingDecode[k] EXCEPT !.cut = TRUE]]]

\* callbacks.onmessage up to `await decodeAudioData(...)`, lines 1416-1429; a
\* message without audio runs to the end of the handler.  The payload has
\* `bytes` bytes: with one channel and two bytes a frame, the buffer made of it
\* lasts bytes / 2 frames (dur).
OnMessage(s, i, hasAudio, bytes, interrupted) ==
  IF ~s.isSessionActiveRef THEN s
  ELSE IF hasAudio /\ s.outputAudioContextRef # 0
  THEN [s EXCEPT
         !.nextStartTimeRef = Max(s.nextStartTimeRef, s.clock),
         !.pendingDecode = Append(s.pendingDecode,
            [ctx |-> s.outputAudioContextRef, dur |-> bytes \div 2,
             bytes |-> bytes, interrupted |-> interrupted, cut |-> FALSE])]
  ELSE IF interrupted THEN Interrupt(s)
  ELSE s

\* A name for the source node createBufferSource returns, line 1431: one no
\* source in flight has.
NewSource(s) ==
  LET live == s.sourcesRef \cup s.playing IN
  CHOOSE n \in 1..(Cardinality(live) + 1) :
    /\ \A src \in live : src.node # n
    /\ \A m \in 1..(n - 1) : \E src \in live : src.node = m

\* The start time onmessage gives the decoded buffer, line 1438.
StartTime(s) == s.nextStartTimeRef

\* The rest of onmessage after the await, lines 1431-1448.  playLog keeps the
\* buffers that arrived and were scheduled on the current output context
\* since the last interruption: start and duration, the clock, the cursor as
\* the message's handler and those of the messages before it left it (the
\* handler itself has raised it to the clock on entry), the cursor afterwards,
\* and the cursor an interruption discarded just before this buffer (after).
\* decodeAudioData rejects when the Int16Array view of line 896 throws, on a
\* payload of odd length: the await of line 1424 throws, no catch surrounds it
\* and the handler ends there.
OnDecoded(s) ==
  LET p == Head(s.pendingDecode)
      start == StartTime(s)
      source == [node |-> NewSource(s), ctx |-> p.ctx, start |-> start,
                 dur |-> p.dur]
      s1 == [s EXCEPT
              !.pendingDecode = Tail(s.pendingDecode),
              !.playing = s.playing \cup {source},
              !.sourcesRef = s.sourcesRef \cup {source},
              !.nextStartTimeRef = start + p.dur,
              !.cutCursor = NoCut,
              !.playLog = IF p.cut THEN s.playLog
                          ELSE Append(s.playLog,
                 [start |-> start, dur |-> p.dur, now |-> s.clock,
                  cursor |-> s.nextStartTimeRef, next |-> start + p.dur,
                  after |-> s.cutCursor])]
  IN IF p.bytes % 2 # 0 THEN [s EXCEPT !.pendingDecode = Tail(s.pendingDecode)]
     ELSE IF p.interrupted THEN Interrupt(s1)
     ELSE s1

\* A listener that forgets every source when one ends.
OnEndedForgetsAll(s, src) ==
  [s EXCEPT !.playing = s.playing \ {src}, !.sourcesRef = {}]

\* A source has played to its end: its 'ended' listener, lines 1434-1436.
OnEnded(s, src) ==
  [s EXCEPT !.playing = s.playing \ {src},
            !.sourcesRef = s.sourcesRef \ {src}]

\* -------------------------------------------------------- screen share

\* The slot of a new startScreenShare call: one whose call has ended and whose
\* stream is stopped and unreferenced.
FreeShares(s) ==
  {j \in Shr : /\ s.shr[j].pc \in {"none", "failed", "done"}
               /\ s.shr[j].stream # "live"
               /\ j \notin {s.screenStreamRef, s.videoSrc}}

NewShare(s) == CHOOSE j \in FreeShares(s) : \A k \in FreeShares(s) : j <= k

\* The id window.setInterval returns: one no running timer has.
NewTimer(s) == CHOOSE t \in Tmr \ s.timers : \A k \in Tmr \ s.timers : t <= k

\* startScreenShare up to `await getDisplayMedia`, lines 1204-1215.
StartScreenShare(s, supported) ==
  IF ~s.isConnected THEN s
  ELSE LET s1 == [s EXCEPT !.errorMessage = "", !.isScreenPaused = FALSE]
       IN IF ~supported THEN [s1 EXCEPT !.errorMessage = "screen-unsupported"]
          ELSE [s1 EXCEPT !.shr[NewShare(s)] = [NoShare EXCEPT !.pc = "wait"]]

\* The catch of startScreenShare, lines 1233-1241.
ShareCatch(s, j, cause) ==
  [s EXCEPT !.isScreenSharing = FALSE, !.errorMessage = cause,
            !.shr[j].pc = "failed"]

\* getDisplayMedia resolved: lines 1216-1220, up to `await video.play()`.
DisplayResolved(s, j) ==
  [s EXCEPT !.shr[j] = [pc |-> "play", stream |-> "live"],
            !.screenStreamRef = j,
            !.videoSrc = j]

\* video.play() resolved: lines 1223-1231.
PlayResolved(s, j) ==
  [s EXCEPT !.isScreenSharing = TRUE,
            !.shr[j].pc = "done",
            !.timers = s.timers \cup {NewTimer(s)},
            !.screenIntervalRef = NewTimer(s)]

\* pauseScreenShare(), lines 1244-1251.
PauseScreenShare(s) ==
  IF ~s.isScreenSharing THEN s
  ELSE [s EXCEPT !.isScreenPaused = TRUE,
                 !.timers = s.timers \ {s.screenIntervalRef},
                 !.screenIntervalRef = 0]

\* resumeScreenShare(), lines 1253-1261.
ResumeScreenShare(s) ==
  IF ~s.isScreenSharing THEN s
  ELSE IF s.screenIntervalRef # 0 THEN [s EXCEPT !.isScreenPaused = FALSE]
  ELSE [s EXCEPT !.isScreenPaused = FALSE,
                 !.timers = s.timers \cup {NewTimer(s)},
                 !.screenIntervalRef = NewTimer(s)]

\* Whether captureAndSendFrame gets past its guards, lines 1280-1283: the
\* preview shows a stream (videoWidth > 0), a session promise is held and the
\* active flag is set.
FramePasses(s) ==
  /\ s.sessionRef # 0
  /\ s.isSessionActiveRef
  /\ s.videoSrc # 0

\* captureAndSendFrame(), lines 1279-1309: on a resolved promise the send
\* continuation runs at once; on a pending one it is chained.
CaptureAndSendFrame(s) ==
  IF FramePasses(s) /\ s.att[s.sessionRef].sess = "pending"
  THEN [s EXCEPT !.att[s.sessionRef].frames = 1]
  ELSE s

\* ------------------------------------------------------- frame scaling

\* Line 1287.
MAX_WIDTH == 1280

\* A scale that lacks the cap at 1.
ScaleUncapped(videoWidth) == [num |-> MAX_WIDTH, den |-> videoWidth]

\* Line 1288: Math.min(1, MAX_WIDTH / video.videoWidth), as a fraction.
Scale(videoWidth) ==
  IF MAX_WIDTH >= videoWidth THEN [num |-> 1, den |-> 1]
  ELSE [num |-> MAX_WIDTH, den |-> videoWidth]

\* Lines 1290-1291: what `canvas.width = x * scale` can store.  The attribute
\* is an unsigned long, so the fraction of the product is dropped.  scale is
\* the double nearest to num / den, and the product is rounded again: where
\* the exact product is a whole number q the double is q or a neighbour of
\* q, which stores q or q - 1 (1279 for a video 2139 wide).
CanvasSizes(x, scale) ==
  LET p == x * scale.num
      q == p \div scale.den
  IN IF scale.den = 1 THEN {p}
     ELSE IF p % scale.den = 0 THEN {q - 1, q}
     ELSE {q}

\* captureAndSendFrame from line 1282 to line 1297: the canvases it can draw
\* the frame on, none when it returns at line 1283.
FrameCanvas(videoWidth, videoHeight) ==
  IF videoWidth = 0 \/ videoHeight = 0 THEN {}
  ELSE {[width |-> cw, height |-> ch] :
          cw \in CanvasSizes(videoWidth, Scale(videoWidth)),
          ch \in CanvasSizes(videoHeight, Scale(videoWidth))}

\* Sizes of the video the preview element shows.
VideoWidths == {0, 1, 640, 1279, 1280, 1281, 1920, 2139, 2560, 3840}
VideoHeights == {0, 1, 480, 720, 800, 1080, 1440, 2160}

\* --------------------------------------------------------------- codec

\* A Float32 sample is written as its numerator over 65536: k stands for the
\* sample k / 65536, so that 65536 is 1.0 and -65536 is -1.0.
SampleValues == {0 - 65538, 0 - 65536, 0 - 32769, 0 - 3, 0, 1, 511, 32768,
                 65535, 65536}

\* The integer nearest to zero of a / b: the truncation of ToInt16.
TruncDiv(a, b) == IF a >= 0 THEN a \div b ELSE 0 - ((0 - a) \div b)

\* The store into an Int16Array, line 913: data[i] * 32768, which for the
\* sample k / 65536 is k / 2, is truncated and wrapped modulo 2^16 into
\* -32768..32767.
ToInt16(k) ==
  LET n == TruncDiv(k, 2)
      m == n % 65536
  IN IF m >= 32768 THEN m - 65536 ELSE m

\* new Uint8Array(int16.buffer), line 916: the two bytes of each element,
\* low byte first.
BytesOf(ints) ==
  [k \in 1..(2 * Len(ints)) |->
     LET u == ints[(k + 1) \div 2] % 65536
     IN IF k % 2 = 1 THEN u % 256 ELSE u \div 256]

\* btoa of the binary string of encode, lines 871-878: every three bytes give
\* four symbols of six bits; 64 stands for the padding character.
encode(bytes) ==
  LET n == Len(bytes)
      ByteAt(k) == IF k <= n THEN bytes[k] ELSE 0
  IN [j \in 1..(4 * ((n + 2) \div 3)) |->
        LET g == (j - 1) \div 4
            p == (j - 1) % 4
            v == ByteAt(3 * g + 1) * 65536 + ByteAt(3 * g + 2) * 256
                   + ByteAt(3 * g + 3)
        IN IF (p = 2 /\ 3 * g + 2 > n) \/ (p = 3 /\ 3 * g + 3 > n) THEN 64
           ELSE CASE p = 0 -> v \div 262144
                  [] p = 1 -> (v \div 4096) % 64
                  [] p = 2 -> (v \div 64) % 64
                  [] OTHER -> v % 64]

\* A decode that keeps the low seven bits of each character code.
decodeSevenBit(base64) ==
  LET Sym(j) == IF base64[j] = 64 THEN 0 ELSE base64[j]
      pad == Cardinality({j \in 1..Len(base64) : base64[j] = 64})
  IN [k \in 1..(3 * (Len(base64) \div 4) - pad) |->
        LET g == (k - 1) \div 3
            q == (k - 1) % 3
            v == Sym(4 * g + 1) * 262144 + Sym(4 * g + 2) * 4096
                   + Sym(4 * g + 3) * 64 + Sym(4 * g + 4)
        IN (CASE q = 0 -> v \div 65536
              [] q = 1 -> (v \div 256) % 256
              [] OTHER -> v % 256) % 128]

\* decode, lines 880-888: atob, then the character codes as bytes.
decode(base64) ==
  LET Sym(j) == IF base64[j] = 64 THEN 0 ELSE base64[j]
      pad == Cardinality({j \in 1..Len(base64) : base64[j] = 64})
  IN [k \in 1..(3 * (Len(base64) \div 4) - pad) |->
        LET g == (k - 1) \div 3
            q == (k - 1) % 3
            v == Sym(4 * g + 1) * 262144 + Sym(4 * g + 2) * 4096
                   + Sym(4 * g + 3) * 64 + Sym(4 * g + 4)
        IN CASE q = 0 -> v \div 65536
             [] q = 1 -> (v \div 256) % 256
             [] OTHER -> v % 256]

\* createBlob, lines 909-919: the data field of the blob.
createBlob(data) ==
  encode(BytesOf([k \in 1..Len(data) |-> ToInt16(data[k])]))

\* new Int16Array(data.buffer), line 896: the bytes read in pairs, low byte
\* first, as signed 16-bit integers.
Int16View(bytes) ==
  [k \in 1..(Len(bytes) \div 2) |->
     LET u == bytes[2 * k - 1] + 256 * bytes[2 * k]
     IN IF u >= 32768 THEN u - 65536 ELSE u]

\* decodeAudioData, lines 890-907, as what its promise settles with: err is
\* the exception it rejects with, "none" when it resolves with a buffer.
\*   line 896  the Int16Array view of a buffer of odd byte length throws
\*   line 897  frameCount is a quotient that need not be whole
\*   line 898  createBuffer takes its length as an unsigned long (the fraction
\*             is dropped) and throws when the length is zero
\* numChannels is the argument of the call.
\*   line 903  channelData[i] is dataInt16[i * numChannels + channel] / 32768,
\*             kept here as its numerator; a store past the end of the channel
\*             is ignored
decodeAudioData(data, numChannels) ==
  IF Len(data) % 2 # 0
  THEN [NoBuffer EXCEPT !.err = "RangeError", !.numChannels = numChannels]
  ELSE
    LET dataInt16 == Int16View(data)
        length == Len(dataInt16) \div numChannels
    IN IF length = 0
       THEN [NoBuffer EXCEPT !.err = "NotSupportedError",
                             !.numChannels = numChannels]
       ELSE [err |-> "none", numChannels |-> numChannels, length |-> length,
             channelData |->
               [channel \in 1..numChannels |->
                  [i \in 1..length |->
                     dataInt16[(i - 1) * numChannels + channel]]]]

\* ------------------------------------------------------------- actions

\* The connect button while not connected, line 1636.  online and keyOk are
\* navigator.onLine and the configured API key at the click.
UserConnectN(limit, Suspended) ==
  \E online, keyOk \in BOOLEAN, inSuspended, outSuspended \in Suspended :
    /\ ~isConnected
    /\ (online /\ keyOk) => Cardinality(Att \ FreeAttempts(Cur)) < limit
    /\ Task(ToggleStart(Cur, online, keyOk, inSuspended, outSuspended),
            Ev("connect", IF online /\ keyOk THEN NewAttempt(Cur) ELSE 0))

\* The connect button while connected (line 1636) or the stop button of the
\* minimized widget (line 1550): both run cleanup().
UserDisconnect ==
  /\ isConnected
  /\ Task(ToggleStart(Cur, TRUE, TRUE, FALSE, FALSE), Ev("disconnect", 0))

ResumeInputResolved ==
  \E i \in Att, outSuspended \in BOOLEAN :
    /\ att[i].pc = "resumeIn"
    /\ Task(ResumeInputDone(Cur, i, outSuspended), Ev("resumeIn", i))

ResumeOutputResolved ==
  \E i \in Att :
    /\ att[i].pc = "resumeOut"
    /\ Task(ResumeOutputDone(Cur, i), Ev("resumeOut", i))

MicGranted ==
  \E i \in Att :
    /\ att[i].pc = "mic"
    /\ Task(MicResolved(Cur, i), Ev("micGranted", i))

MicFailed ==
  \E i \in Att, name \in MicCauses :
    /\ att[i].pc = "mic"
    /\ Task(MicRejected(Cur, i, name),
            [Ev("micFailed", i) EXCEPT !.arg = {name}])

\* What a callback of attempt i records: whether teardown had run on it.
SessEv(kind, i) == [Ev(kind, i) EXCEPT !.stale = att[i].torn]

SessionOpened ==
  \E i \in Att, procOk \in BOOLEAN :
    /\ att[i].sess = "pending"
    /\ att[i].inCtx = "open" => procOk
    /\ Task(OnOpen(Cur, i, procOk),
            [SessEv("onopen", i) EXCEPT
               !.sent = IF att[i].frames > 0 /\ isSessionActiveRef
                        THEN "image" ELSE "none"])

SessionRejected ==
  \E i \in Att, msg \in RejectCauses :
    /\ att[i].sess = "pending"
    /\ Task(OnConnectRejected(Cur, i, msg),
            [SessEv("onreject", i) EXCEPT !.arg = msg])

SessionClosed ==
  \E i \in Att :
    /\ att[i].sess \in {"open", "closing"}
    /\ Task(OnClose(Cur, i), SessEv("onclose", i))

SessionError ==
  \E i \in Att :
    /\ att[i].sess = "open"
    /\ Task(OnError(Cur, i), SessEv("onerror", i))

AudioBlock ==
  \E i \in Att :
    /\ att[i].proc = "on" /\ att[i].inCtx = "open"
    /\ Len(blockLog) < MaxBlocks
    /\ Task(OnAudioProcess(Cur, i),
            [SessEv("block", i) EXCEPT
               !.sent = IF BlockTransmitted(Cur, i) THEN "audio" ELSE "none"])

UserMute ==
  /\ isConnected
  /\ Task(ToggleMute(Cur), Ev("mute", 0))

\* An inbound message: an audio payload of dur whole frames and `extra` odd
\* bytes, an interruption signal, or both.
MessageIn(Durations, Extras) ==
  \E i \in Att, hasAudio, interrupted \in BOOLEAN, dur \in Durations,
     extra \in Extras :
    /\ att[i].sess = "open"
    /\ hasAudio \/ interrupted
    /\ hasAudio => Len(playLog) + Len(pendingDecode) < MaxBuffers
    /\ ~hasAudio => dur = 1 /\ extra = 0
    /\ Apply(OnMessage(Cur, i, hasAudio, 2 * dur + extra, interrupted),
             [SessEv("onmessage", i) EXCEPT
                !.intr = /\ interrupted /\ isSessionActiveRef
                         /\ ~(hasAudio /\ outputAudioContextRef # 0)])

\* Messages whose payloads are whole frames.
MessageOf(Durations) == MessageIn(Durations, {0})

\* The continuation of the await of line 1424.  The event records whether the
\* payload was malformed and whether its message carried an interruption.
Decoded ==
  /\ pendingDecode # <<>>
  /\ LET p == Head(pendingDecode) IN
     Apply(OnDecoded(Cur),
           [Ev("decoded", 0) EXCEPT
              !.intr = p.interrupted /\ p.bytes % 2 = 0,
              !.arg = (IF p.bytes % 2 # 0 THEN {"malformed"} ELSE {})
                        \cup (IF p.interrupted THEN {"interrupted"} ELSE {})])

SourceEnded ==
  \E src \in playing :
    /\ src.ctx = outputAudioContextRef
    /\ clock >= src.start + src.dur
    /\ Task(OnEnded(Cur, src), Ev("ended", 0))

\* The output context's clock advances between tasks.
ClockAdvance ==
  /\ outputAudioContextRef # 0
  /\ clock < MaxTime
  /\ Task([Cur EXCEPT !.clock = clock + 1], Ev("clock", 0))

\* The share button while connected and not sharing, lines 1660-1662, with
\* fewer than `limit` earlier requests still in progress or holding a stream.
UserStartShareN(limit) ==
  \E supported \in BOOLEAN :
    /\ isConnected /\ ~isScreenSharing
    /\ supported => Cardinality(Shr \ FreeShares(Cur)) < limit
    /\ Task(StartScreenShare(Cur, supported), Ev("startShare", 0))

DisplayGranted ==
  \E j \in Shr :
    /\ shr[j].pc = "wait"
    /\ Task(DisplayResolved(Cur, j), Ev("displayGranted", j))

DisplayFailed ==
  \E j \in Shr, cause \in {"screen-denied", "screen-failed"} :
    /\ shr[j].pc = "wait"
    /\ Task(ShareCatch(Cur, j, cause), Ev("displayFailed", j))

\* play() resolves while the preview still shows the stream it was called
\* for: assigning another srcObject (or null) makes the element load anew,
\* which rejects the pending play().
PlayStarted ==
  \E j \in Shr :
    /\ shr[j].pc = "play"
    /\ videoSrc = j
    /\ Tmr \ timers # {}
    /\ Task(PlayResolved(Cur, j), Ev("playStarted", j))

PlayFailed ==
  \E j \in Shr :
    /\ shr[j].pc = "play"
    /\ Task(ShareCatch(Cur, j, "screen-failed"), Ev("playFailed", j))

\* The display track is ended from outside (browser chrome): onended, lines
\* 1225-1227, runs stopScreenShare().
TrackEnded ==
  \E j \in Shr :
    /\ shr[j].pc = "done" /\ shr[j].stream = "live"
    /\ Task(StopScreenShare([Cur EXCEPT !.shr[j].stream = "stopped"]),
            Ev("trackEnded", j))

UserPause ==
  /\ isScreenSharing /\ ~isScreenPaused
  /\ Task(PauseScreenShare(Cur), Ev("pause", 0))

UserResume ==
  /\ isScreenSharing /\ isScreenPaused
  /\ screenIntervalRef = 0 => Tmr \ timers # {}
  /\ Task(ResumeScreenShare(Cur), Ev("resume", 0))

UserStopShare ==
  /\ isScreenSharing
  /\ Task(StopScreenShare(Cur), Ev("stopShare", 0))

\* One tick of a running interval timer, lines 1229-1231 and 1257-1259.
TimerTick ==
  \E t \in timers :
    /\ Task(CaptureAndSendFrame(Cur),
            [Ev("tick", t) EXCEPT
               !.sent = IF FramePasses(Cur) /\ att[sessionRef].sess = "open"
                        THEN "image" ELSE "none"])

\* One array of samples is encoded for the wire.
EncodeSamples ==
  /\ codec.stage = "samples"
  /\ codec' = [codec EXCEPT !.stage = "wire", !.wire = createBlob(codec.samples)]
  /\ UNCHANGED <<status, isConnected, isMuted, errorMessage, isScreenSharing,
                 isScreenPaused, isSessionActiveRef, inputAudioContextRef,
                 outputAudioContextRef, scriptProcessorRef, mediaStreamRef,
                 sessionRef, nextStartTimeRef, sourcesRef, screenStreamRef,
                 screenIntervalRef, videoSrc, att, shr, timers, clock,
                 pendingDecode, blockLog, playLog, cutCursor, playing, lastEvent,
                 frame>>

\* The wire bytes are decoded and read as 16-bit integers.
DecodeWire ==
  /\ codec.stage = "wire"
  /\ codec' = [codec EXCEPT !.stage = "decoded",
                            !.pcm = Int16View(decode(codec.wire))]
  /\ UNCHANGED <<status, isConnected, isMuted, errorMessage, isScreenSharing,
                 isScreenPaused, isSessionActiveRef, inputAudioContextRef,
                 outputAudioContextRef, scriptProcessorRef, mediaStreamRef,
                 sessionRef, nextStartTimeRef, sourcesRef, screenStreamRef,
                 screenIntervalRef, videoSrc, att, shr, timers, clock,
                 pendingDecode, blockLog, playLog, cutCursor, playing, lastEvent,
                 frame>>

\* The decoded bytes are made into a playback buffer of some channel count.
BuildBuffer ==
  \E numChannels \in 1..MaxChannels :
    /\ codec.stage = "decoded"
    /\ codec' = [codec EXCEPT !.stage = "buffer",
                              !.buf = decodeAudioData(decode(codec.wire),
                                                      numChannels)]
    /\ UNCHANGED <<status, isConnected, isMuted, errorMessage, isScreenSharing,
                   isScreenPaused, isSessionActiveRef, inputAudioContextRef,
                   outputAudioContextRef, scriptProcessorRef, mediaStreamRef,
                   sessionRef, nextStartTimeRef, sourcesRef, screenStreamRef,
                   screenIntervalRef, videoSrc, att, shr, timers, clock,
                   pendingDecode, blockLog, playLog, cutCursor, playing, lastEvent,
                 frame>>

\* One frame of the preview is scaled onto a canvas, or skipped.
DrawFrame ==
  /\ frame.stage = "captured"
  /\ LET canvases == FrameCanvas(frame.videoWidth, frame.videoHeight) IN
       IF canvases = {} THEN frame' = [frame EXCEPT !.stage = "skipped"]
       ELSE \E c \in canvases :
              frame' = [frame EXCEPT !.stage = "drawn", !.width = c.width,
                                     !.height = c.height]
  /\ UNCHANGED <<status, isConnected, isMuted, errorMessage, isScreenSharing,
                 isScreenPaused, isSessionActiveRef, inputAudioContextRef,
                 outputAudioContextRef, scriptProcessorRef, mediaStreamRef,
                 sessionRef, nextStartTimeRef, sourcesRef, screenStreamRef,
                 screenIntervalRef, videoSrc, att, shr, timers, clock,
                 pendingDecode, blockLog, playLog, cutCursor, playing, lastEvent,
                 codec>>

\* ------------------------------------------------------ specifications

\* The scaling on every size of VideoWidths x VideoHeights.
InitFrame ==
  /\ InitComponent /\ codec = NoCodec
  /\ frame \in {[NoFrame EXCEPT !.stage = "captured", !.videoWidth = w,
                                 !.videoHeight = h] :
                  w \in VideoWidths, h \in VideoHeights}

NextFrame == DrawFrame

SpecFrame == InitFrame /\ [][NextFrame]_vars

\* The codec on every array of up to MaxSamples samples.
SampleArrays ==
  UNION {[1..n -> SampleValues] : n \in 0..MaxSamples}

InitCodec ==
  /\ InitComponent /\ frame = NoFrame
  /\ codec \in {[NoCodec EXCEPT !.stage = "samples", !.samples = a] :
                  a \in SampleArrays}

NextCodec == EncodeSamples \/ DecodeWire \/ BuildBuffer

SpecCodec == InitCodec /\ [][NextCodec]_vars


\* An inbound message with an audio payload of any duration up to MaxDur, an
\* interruption signal, or both.
Message == MessageOf(1..MaxDur)

\* The same with payloads of the unit duration: what teardown does with a
\* buffer does not depend on its length.
MessageUnit == MessageOf({1})

\* Any share request the slots allow.
UserStartShare == UserStartShareN(MaxShares)

\* A share request made only while no earlier one is in progress or holds a
\* stream.
UserStartShareAlone == UserStartShareN(1)

\* Any connect request the slots allow; a new audio context may start
\* suspended.
UserConnect == UserConnectN(MaxAttempts, BOOLEAN)

\* The same, with audio contexts that start running.
UserConnectRunning == UserConnectN(MaxAttempts, {FALSE})

\* A connect request made only while no earlier attempt still holds
\* anything, with audio contexts that start running.
UserConnectAlone == UserConnectN(1, {FALSE})

\* A connect request made online and with a credential, with audio contexts
\* that start running, while fewer than `limit` earlier attempts still hold
\* anything.
UserConnectOnlineN(limit) ==
  /\ ~isConnected
  /\ Cardinality(Att \ FreeAttempts(Cur)) < limit
  /\ Task(ToggleStart(Cur, TRUE, TRUE, FALSE, FALSE),
          Ev("connect", NewAttempt(Cur)))

\* Any such request the slots allow.
UserConnectOnline == UserConnectOnlineN(MaxAttempts)

\* Such a request made only while no earlier attempt still holds anything.
UserConnectOnlineAlone == UserConnectOnlineN(1)

\* The session lifecycle: connect attempts, disconnects and session events.
Next ==
  \/ UserConnect \/ UserDisconnect
  \/ ResumeInputResolved \/ ResumeOutputResolved
  \/ MicGranted \/ MicFailed
  \/ SessionOpened \/ SessionRejected \/ SessionClosed \/ SessionError

Spec == Init /\ [][Next]_vars

\* The lifecycle in which every pending device request and every session-open
\* attempt is eventually answered: the browser settles the promises of
\* resume() and getUserMedia(), and the connection attempt either opens or is
\* rejected.  What the user does and when a session closes or fails is left
\* open.
UserConnectTwice == UserConnectN(2, BOOLEAN)

NextLive ==
  \/ UserConnectTwice \/ UserDisconnect
  \/ ResumeInputResolved \/ ResumeOutputResolved
  \/ MicGranted \/ MicFailed
  \/ SessionOpened \/ SessionRejected \/ SessionClosed \/ SessionError

SpecLive ==
  /\ Init /\ [][NextLive]_vars
  /\ WF_vars(ResumeInputResolved) /\ WF_vars(ResumeOutputResolved)
  /\ WF_vars(MicGranted \/ MicFailed)
  /\ WF_vars(SessionOpened \/ SessionRejected)

\* The lifecycle with microphone capture and the mute button.
NextCapture ==
  \/ UserConnectAlone \/ UserDisconnect
  \/ MicGranted
  \/ SessionOpened \/ SessionClosed
  \/ AudioBlock \/ UserMute

SpecCapture == Init /\ [][NextCapture]_vars

\* The lifecycle with inbound messages and playback.  The decode of a message
\* runs before the next task, and only a callback that is itself delivered from
\* a microtask (a further message) can run before it.
NextPlay ==
  \/ UserConnectRunning \/ UserDisconnect
  \/ MicGranted
  \/ SessionOpened
  \/ SourceEnded \/ ClockAdvance
  \/ Message
  \/ Decoded

SpecPlay == Init /\ [][NextPlay]_vars

\* Any inbound message, its payload well-formed or one byte too long.
MessageAny == MessageIn(1..MaxDur, {0, 1})

\* Playback within sessions requested one at a time, with payloads that may
\* be malformed.
NextPlayMalformed ==
  \/ UserConnectAlone \/ UserDisconnect
  \/ MicGranted
  \/ SessionOpened
  \/ SourceEnded \/ ClockAdvance
  \/ MessageAny
  \/ Decoded

SpecPlayMalformed == Init /\ [][NextPlayMalformed]_vars

\* Inbound messages within connect requests that may overlap, with sessions
\* that close, so that a later request follows a teardown.
NextPlayStale ==
  \/ UserConnectOnline \/ UserDisconnect
  \/ MicGranted
  \/ SessionOpened \/ SessionClosed
  \/ MessageUnit
  \/ Decoded

SpecPlayStale == Init /\ [][NextPlayStale]_vars

\* Playback within sessions requested one at a time.
NextPlayAlone ==
  \/ UserConnectOnlineAlone \/ UserDisconnect
  \/ MicGranted
  \/ SessionOpened
  \/ SourceEnded \/ ClockAdvance
  \/ Message
  \/ Decoded

SpecPlayAlone == Init /\ [][NextPlayAlone]_vars

\* Sessions requested one at a time that acquire what they can, so that
\* teardown follows from every state of a session: connecting, connected or
\* failed, muted or not, with or without screen sharing, paused or not, with
\* playback buffers in flight.
NextTeardown ==
  \/ UserConnectAlone \/ UserDisconnect
  \/ MicGranted \/ MicFailed
  \/ SessionOpened \/ SessionError
  \/ UserStartShareAlone \/ DisplayGranted \/ PlayStarted
  \/ UserPause \/ UserResume \/ UserStopShare \/ TimerTick
  \/ UserMute
  \/ MessageUnit
  \/ Decoded

SpecTeardown == Init /\ [][NextTeardown]_vars

\* Screen sharing within sessions requested one at a time: share requests
\* (also while an earlier one still waits for the display device), the
\* answers of the device and of the preview, pause, resume, stop and the
\* ticks of the running interval timers.
NextShare ==
  \/ UserConnectAlone \/ UserDisconnect
  \/ MicGranted
  \/ SessionOpened \/ SessionClosed
  \/ UserStartShare \/ DisplayGranted \/ DisplayFailed
  \/ PlayStarted \/ PlayFailed \/ TrackEnded
  \/ UserPause \/ UserResume \/ UserStopShare \/ TimerTick

SpecShare == Init /\ [][NextShare]_vars

\* One screen share at a time within connect requests that may overlap.
NextShareOverlap ==
  \/ UserConnectRunning \/ UserDisconnect
  \/ MicGranted \/ MicFailed
  \/ SessionOpened
  \/ UserStartShareAlone \/ DisplayGranted \/ PlayStarted
  \/ TimerTick

SpecShareOverlap == Init /\ [][NextShareOverlap]_vars

\* ---------------------------------------------------------------- claims

\* No ref holds a handle, no timer runs, nothing is in flight, the active flag
\* is down, and no device, context, processor, session or timer that was
\* created is still open.
NothingOpen(s) ==
  /\ ~s.isSessionActiveRef
  /\ s.mediaStreamRef = 0 /\ s.screenStreamRef = 0 /\ s.scriptProcessorRef = 0
  /\ s.inputAudioContextRef = 0 /\ s.outputAudioContextRef = 0
  /\ s.sessionRef = 0
  /\ s.screenIntervalRef = 0 /\ s.timers = {}
  /\ s.sourcesRef = {}
  /\ \A i \in Att : /\ s.att[i].mic # "live"
                    /\ s.att[i].proc # "on"
                    /\ s.att[i].inCtx # "open" /\ s.att[i].outCtx # "open"
                    /\ s.att[i].sess # "open"
  /\ \A j \in Shr : s.shr[j].stream # "live"

\* C1: after cleanup() is run from any reachable state nothing remains open:
\* microphone stream, screen stream, block processor, both audio contexts and
\* the session handle are released and their refs null, the screen timer is
\* cleared, the in-flight set is empty and the active flag is false.
C1_NothingOpenAfterCleanup == NothingOpen(Cleanup(Cur))

\* C2: cleanup() is idempotent: from every reachable state, running it twice
\* leaves exactly the state that running it once leaves.
C2_CleanupIdempotent == Cleanup(Cleanup(Cur)) = Cleanup(Cur)

\* A user disconnect has just torn down a session that held a microphone, both
\* contexts and a shared screen; running cleanup() again changes nothing.
C2_Witness ==
  /\ lastEvent.kind = "disconnect" /\ lastEvent.changed
  /\ \E i \in Att : /\ att[i].mic = "stopped"
                    /\ att[i].inCtx = "closed" /\ att[i].outCtx = "closed"
                    /\ att[i].sess = "closing"
  /\ \E j \in Shr : shr[j].stream = "stopped"
  /\ Cleanup(Cur) = Cur

\* A connect attempt that has begun and whose session has neither opened nor
\* failed yet.
InProgress(i) ==
  \/ att[i].pc \in {"resumeIn", "resumeOut", "mic"}
  \/ att[i].pc = "session" /\ att[i].sess = "pending"

\* C3: exactly one session at a time: never two connect attempts in progress,
\* two open remote sessions, two live microphone streams or two open input or
\* output audio contexts.
C3_OneSessionAtATime ==
  /\ Cardinality({i \in Att : InProgress(i)}) <= 1
  /\ Cardinality({i \in Att : att[i].sess = "open"}) <= 1
  /\ Cardinality({i \in Att : att[i].mic = "live"}) <= 1
  /\ Cardinality({i \in Att : att[i].inCtx = "open"}) <= 1
  /\ Cardinality({i \in Att : att[i].outCtx = "open"}) <= 1

\* C4, for the statuses idle and error (while connecting, the attempt is
\* acquiring the handles): when the status is not connected no device handle is
\* held: microphone stream, screen stream and both audio contexts are released.
C4_NoHandleUnlessConnected ==
  status \in {"idle", "error"} =>
    /\ mediaStreamRef = 0 /\ screenStreamRef = 0
    /\ inputAudioContextRef = 0 /\ outputAudioContextRef = 0

\* C5: a callback of a session that has been torn down changes nothing of the
\* component's state (status, connection flag, refs, playback schedule) and
\* transmits nothing, whether or not a new session has been started since.
C5_StaleCallbackIgnored ==
  lastEvent.stale => ~lastEvent.changed /\ lastEvent.sent = "none"

\* C6: when the close event arrives on an active session the full teardown
\* runs: status idle, active flag false, microphone stream, processor, both
\* contexts, in-flight set and session handle all released.
C6_CloseRunsTeardown ==
  (lastEvent.kind = "onclose" /\ lastEvent.wasActive) =>
    /\ status = "idle" /\ ~isSessionActiveRef
    /\ mediaStreamRef = 0 /\ scriptProcessorRef = 0
    /\ inputAudioContextRef = 0 /\ outputAudioContextRef = 0
    /\ sourcesRef = {} /\ sessionRef = 0

\* C7: when the error event arrives on an active session, the status once the
\* handler has finished is error, with the error message set.
C7_ErrorStatusAfterOnError ==
  (lastEvent.kind = "onerror" /\ lastEvent.wasActive) =>
    status = "error" /\ errorMessage = "live"

\* C8: in a connected session, a block captured while the user has muted
\* produces no transmitted audio frame.
C8_MutedBlockNotSent ==
  (lastEvent.kind = "block" /\ isConnected /\ isMuted) => lastEvent.sent = "none"

IsLiveSent(b) == b.live /\ b.sent
IsLiveUnmuted(b) == b.live /\ b.unmuted
BlockNumbers(log) == [k \in 1..Len(log) |-> log[k].n]

\* C9: in a connected, active session the sequence of transmitted audio frames
\* is the sequence of blocks captured while unmuted: one frame per such block,
\* none dropped or duplicated, in capture order.
C9_FramesAreUnmutedBlocks ==
  BlockNumbers(SelectSeq(blockLog, IsLiveSent))
    = BlockNumbers(SelectSeq(blockLog, IsLiveUnmuted))

C11_InterruptClearsPlayback ==
  /\ lastEvent.intr => sourcesRef = {} /\ nextStartTimeRef = 0
  /\ \A k \in 1..Len(playLog) :
       playLog[k].after # NoCut => playLog[k].start = playLog[k].now

\* A buffer has just been scheduled at the current clock time after an
\* interruption that discarded buffers reaching beyond it.
C11_Witness ==
  /\ lastEvent.kind = "decoded" /\ playLog # <<>>
  /\ LET b == playLog[Len(playLog)] IN
       b.after > b.now /\ b.start = b.now /\ b.now > 0

\* C12: status becomes connected only from connecting, and only by the open
\* event of the session the component holds, one that has not been torn down;
\* never directly from idle or error.
C12_ConnectedOnlyFromConnecting ==
  [][(status' = "connected" /\ status # "connected") =>
       /\ status = "connecting"
       /\ lastEvent'.kind = "onopen" /\ ~lastEvent'.stale
       /\ lastEvent'.id = sessionRef]_vars

\* What a handler may acquire or release: the refs, the active flag and the
\* objects of the attempts and shares.
Held(s) == <<s.isSessionActiveRef, s.inputAudioContextRef,
             s.outputAudioContextRef, s.scriptProcessorRef, s.mediaStreamRef,
             s.sessionRef, s.screenStreamRef, s.screenIntervalRef, s.att,
             s.shr, s.timers>>

\* C13: a connect request with the network unreachable or without a
\* credential fails at once: status error with the message of the cause,
\* and it creates no audio context, asks for no microphone, opens no session
\* and does not raise the active flag: nothing held changes.
C13_PreconditionFailureAcquiresNothing ==
  [][(lastEvent'.kind = "connect" /\ lastEvent'.id = 0) =>
       /\ status' = "error" /\ errorMessage' \in {"offline", "nokey"}
       /\ isSessionActiveRef' = isSessionActiveRef
       /\ Held(Cur)' = Held(Cur)]_vars

\* A connect request without a credential has just failed from rest: error
\* status, the flag down and nothing held.
C13_Witness ==
  /\ lastEvent.kind = "connect" /\ lastEvent.id = 0
  /\ status = "error" /\ errorMessage = "nokey"
  /\ ~isSessionActiveRef
  /\ inputAudioContextRef = 0 /\ outputAudioContextRef = 0
  /\ mediaStreamRef = 0 /\ sessionRef = 0
  /\ \A i \in Att : att[i].inCtx # "open" /\ att[i].mic # "live"

\* C14: the session is never stuck in connecting: when every pending device
\* request and session-open attempt is eventually answered, a state with
\* status connecting is followed by one with status connected, idle or error.
C14_NeverStuckConnecting ==
  (status = "connecting") ~> (status \in {"connected", "idle", "error"})

\* A rejected session-open attempt has just taken the status out of
\* connecting.
C14_Witness ==
  /\ lastEvent.kind = "onreject" /\ lastEvent.wasActive /\ lastEvent.changed
  /\ status # "connecting"

\* C15: when getUserMedia fails during a connect attempt the full teardown
\* runs and nothing is left half-acquired: the attempt's input and output
\* contexts are closed, it has opened no session, the refs are null, the active
\* flag is false and the message of the cause is set.
C15_MicFailureTearsDown ==
  lastEvent.kind = "micFailed" =>
    LET a == att[lastEvent.id] IN
    /\ a.inCtx = "closed" /\ a.outCtx = "closed"
    /\ a.mic = "none" /\ a.sess = "none"
    /\ inputAudioContextRef = 0 /\ outputAudioContextRef = 0
    /\ mediaStreamRef = 0 /\ sessionRef = 0
    /\ ~isSessionActiveRef
    /\ errorMessage = MicMessage(CHOOSE name \in lastEvent.arg : TRUE)

\* C16: when the session-open attempt rejects while the active flag is set,
\* the failure is classified (a message containing 401: authentication;
\* otherwise one containing 503: service unavailable; otherwise network),
\* teardown runs and everything the attempt acquired is released; when the
\* flag is down the rejection changes nothing.
C16_RejectionClassifiedAndTornDown ==
  lastEvent.kind = "onreject" =>
    IF lastEvent.wasActive
    THEN LET a == att[lastEvent.id] IN
         /\ errorMessage = (IF "401" \in lastEvent.arg THEN "auth-failed"
                            ELSE IF "503" \in lastEvent.arg THEN "unavailable"
                            ELSE "network")
         /\ a.inCtx = "closed" /\ a.outCtx = "closed" /\ a.mic = "stopped"
         /\ inputAudioContextRef = 0 /\ outputAudioContextRef = 0
         /\ mediaStreamRef = 0 /\ sessionRef = 0 /\ scriptProcessorRef = 0
         /\ ~isSessionActiveRef
    ELSE ~lastEvent.changed

C18_PauseResumeOnlyTimer ==
  [][/\ ~isScreenSharing => /\ PauseScreenShare(Cur) = Cur
                            /\ ResumeScreenShare(Cur) = Cur
     /\ lastEvent'.kind \in {"pause", "resume"} =>
          /\ screenStreamRef' = screenStreamRef /\ videoSrc' = videoSrc
          /\ isScreenSharing' = isScreenSharing /\ shr' = shr
          /\ Cardinality(timers') <= 1]_vars

\* C19: screen frames are transmitted only while screen sharing is active and
\* not paused: no handler sends a frame while sharing is paused or after it
\* has been stopped, whatever the start, pause, resume and stop requests.
C19_FramesOnlyWhileSharing ==
  lastEvent.sent = "image" => isScreenSharing /\ ~isScreenPaused

\* C20: decoding the wire bytes that createBlob produced, read as 16-bit
\* little-endian integers, gives exactly the integers the encoder quantized
\* the samples to, in the same number and order.
C20_CodecRoundTrip ==
  codec.stage = "decoded" =>
    codec.pcm = [k \in 1..Len(codec.samples) |-> ToInt16(codec.samples[k])]

\* An array of MaxSamples samples has made the round trip, one of them
\* quantized to a negative integer and one to an integer of two bytes.
C20_Witness ==
  /\ codec.stage = "decoded" /\ Len(codec.samples) = MaxSamples
  /\ \E k \in 1..Len(codec.pcm) : codec.pcm[k] < 0
  /\ \E k \in 1..Len(codec.pcm) : codec.pcm[k] > 255

\* C21: createBlob clips: for every sample in [-1, 1] the 16-bit integer on
\* the wire lies in -32768..32767 and does not have the opposite sign of the
\* sample, and a sample whose scaled value exceeds 32767 (1.0 gives 32768) is
\* encoded as 32767, never as a negative value.
C21_EncodeClipsInRange ==
  codec.stage \in {"wire", "decoded"} =>
    LET ints == Int16View(decode(codec.wire)) IN
    /\ Len(ints) = Len(codec.samples)
    /\ \A k \in 1..Len(codec.samples) :
         LET x == codec.samples[k] IN
         (x >= 0 - 65536 /\ x <= 65536) =>
           /\ ints[k] >= 0 - 32768 /\ ints[k] <= 32767
           /\ x > 0 => ints[k] >= 0
           /\ x < 0 => ints[k] <= 0
           /\ TruncDiv(x, 2) > 32767 => ints[k] = 32767

\* C22: decodeAudioData settles with an error, and builds no buffer, whenever
\* the number of 16-bit samples is not a multiple of the channel count; when
\* it is a multiple (of a payload that is not empty) the buffer has
\* samples / channels frames and frame i of channel c is sample
\* i * channels + c over 32768.
C22_UnevenSamplesRejected ==
  codec.stage = "buffer" =>
    LET b == codec.buf
        n == Len(codec.pcm)
    IN IF n % b.numChannels # 0 THEN b.err # "none"
       ELSE n > 0 =>
         /\ b.err = "none"
         /\ b.length * b.numChannels = n
         /\ \A c \in 1..b.numChannels, i \in 1..b.length :
              b.channelData[c][i] = codec.pcm[(i - 1) * b.numChannels + c]

\* C23: a frame of width w > 0 and height h > 0 is drawn w by h when
\* w <= 1280 (never enlarged) and at most 1280 wide otherwise, with width and
\* height both scaled by min(1, 1280 / w) and cut to whole pixels, so the
\* aspect ratio is kept to within a pixel; a frame of zero width or height is
\* skipped.
C23_DownscaleKeepsAspect ==
  LET w == frame.videoWidth
      h == frame.videoHeight
  IN
  /\ frame.stage = "skipped" => w = 0 \/ h = 0
  /\ frame.stage = "drawn" =>
       /\ w > 0 /\ h > 0
       /\ w <= 1280 => frame.width = w /\ frame.height = h
       /\ w > 1280 =>
            /\ frame.width <= 1280
            /\ frame.width * w <= 1280 * w /\ 1280 * w <= (frame.width + 1) * w
            /\ frame.height * w <= 1280 * h /\ 1280 * h <= (frame.height + 1) * w

\* A frame 1920 by 1080 has been drawn 1280 by 720.
C23_Witness ==
  /\ frame.stage = "drawn"
  /\ frame.videoWidth = 1920 /\ frame.videoHeight = 1080
  /\ frame.width = 1280 /\ frame.height = 720

\* C24: a malformed audio payload does not abort the session: when its
\* decode fails the buffer is dropped, status, connection flag, active flag,
\* session handle and output context are as before, the buffers in flight are
\* untouched unless the same message carried an interruption, which is then
\* honoured (in-flight set empty, cursor zero), and the playback of later
\* messages is not impaired.
C24_MalformedPayloadDropped ==
  [][(lastEvent'.kind = "decoded" /\ "malformed" \in lastEvent'.arg) =>
       /\ status' = status /\ isConnected' = isConnected
       /\ isSessionActiveRef' = isSessionActiveRef
       /\ sessionRef' = sessionRef
       /\ outputAudioContextRef' = outputAudioContextRef
       /\ att' = att
       /\ pendingDecode' = Tail(pendingDecode)
       /\ IF "interrupted" \in lastEvent'.arg
          THEN sourcesRef' = {} /\ nextStartTimeRef' = 0
          ELSE sourcesRef' = sourcesRef /\ nextStartTimeRef' = nextStartTimeRef]_vars

\* The handlers that run cleanup().
TeardownKinds == {"disconnect", "micFailed", "onreject", "onerror",
                  "resumeIn", "resumeOut"}

\* C25: the in-flight set is at every moment exactly the set of the source
\* nodes that have been started and have neither ended nor been stopped, and
\* it changes only in these ways: the scheduling of a decoded buffer adds that
\* buffer (or, when its message carries an interruption, empties the set), the
\* ended event of a member whose end the clock has reached removes that
\* member, and an interruption or a teardown empties it.
C25_InFlightSetExact ==
  [][/\ sourcesRef' = playing'
     /\ sourcesRef' # sourcesRef =>
          \/ /\ lastEvent'.kind = "decoded"
             /\ \/ \E src \in sourcesRef' \ sourcesRef :
                     sourcesRef' = sourcesRef \cup {src}
                \/ lastEvent'.intr /\ sourcesRef' = {}
          \/ /\ lastEvent'.kind = "ended"
             /\ \E src \in sourcesRef :
                  /\ sourcesRef' = sourcesRef \ {src}
                  /\ clock >= src.start + src.dur
          \/ /\ lastEvent'.kind = "onmessage" /\ lastEvent'.intr
             /\ sourcesRef' = {}
          \/ /\ lastEvent'.kind \in TeardownKinds
             /\ sourcesRef' = {}]_vars

\* A buffer has just ended and left the set while a later one is still in
\* flight.
C25_Witness ==
  /\ lastEvent.kind = "ended" /\ lastEvent.changed
  /\ Cardinality(sourcesRef) = 1 /\ sourcesRef = playing
  /\ \E src \in sourcesRef : src.start + src.dur > clock

\* Every connect attempt whose session has opened has been torn down since:
\* no session has opened after the last teardown.
NoSessionSinceTeardown ==
  \A i \in Att : att[i].torn \/ att[i].sess \in {"none", "pending"}

C27_LateDisplayGrantNotRetained ==
  ~isConnected =>
    /\ screenStreamRef = 0 /\ \A j \in Shr : shr[j].stream # "live"
    /\ screenIntervalRef = 0 /\ timers = {}
    /\ ~isScreenSharing

\* C28: the connection flag and the status agree in every reachable state:
\* isConnected is true exactly when status is connected, whatever the order of
\* connect requests, teardowns and session callbacks.
C28_FlagAgreesWithStatus == isConnected <=> (status = "connected")

\* A session of two overlapping connect attempts has closed after having been
\* connected: flag and status have both gone back.
C28_Witness ==
  /\ lastEvent.kind = "onclose" /\ lastEvent.wasActive /\ lastEvent.changed
  /\ ~isConnected /\ status = "idle"
  /\ \E i \in Att : i # lastEvent.id /\ att[i].pc # "none"

\* C29: the screen-share state is consistent in every reachable state: paused
\* implies sharing; a running interval timer implies sharing, not paused and
\* a held, live screen stream; and at most one interval timer runs, the one
\* screenIntervalRef holds (so that stop, pause and teardown clear every timer
\* that was started).
C29_ShareStateConsistent ==
  /\ isScreenPaused => isScreenSharing
  /\ timers # {} =>
       /\ isScreenSharing /\ ~isScreenPaused
       /\ screenStreamRef # 0 /\ shr[screenStreamRef].stream = "live"
  /\ Cardinality(timers) <= 1
  /\ timers \subseteq {screenIntervalRef}

\* C30: teardown leaves the error message and the mute flag as they are:
\* cleanup() run from any reachable state changes neither, a user disconnect
\* changes neither (it sets no error message), and a message that is set is
\* cleared only by a connect request that passes its preconditions or by a
\* screen-share request.
C30_TeardownKeepsErrorAndMute ==
  [][/\ Cleanup(Cur).errorMessage = errorMessage
     /\ Cleanup(Cur).isMuted = isMuted
     /\ lastEvent'.kind = "disconnect" =>
          errorMessage' = errorMessage /\ isMuted' = isMuted
     /\ (errorMessage # "" /\ errorMessage' = "") =>
          \/ lastEvent'.kind = "connect" /\ lastEvent'.id # 0
          \/ lastEvent'.kind = "startShare"]_vars

\* The user has just disconnected a muted session that showed a screen-share
\* error: the session is torn down, the message and the mute flag remain.
C30_Witness ==
  /\ lastEvent.kind = "disconnect" /\ lastEvent.changed
  /\ status = "idle" /\ ~isConnected /\ ~isSessionActiveRef
  /\ errorMessage = "screen-unsupported" /\ isMuted

====
